---- MODULE Spec2Model ----
(***************************************************************************)
(* A model of the rotating file writer of writer.go: the four writer       *)
(* variants (Writer, LockedWriter, AsynchronousWriter, BufferWriter), the   *)
(* rotation protocol Reopen, the per-rotation background task (CompressFile *)
(* and the retention channel rollingfilech with DoRemove), and Close.       *)
(*                                                                         *)
(* Goroutines are processes: the callers (pc, loc), the asynchronous        *)
(* writer's background task (bgw) and one detached task per rotation        *)
(* (task).  A step is one access to shared state (a channel operation, an   *)
(* atomic operation, a file-system call together with the field assignment  *)
(* that follows it).  The Manager, the file system and the scheduler are    *)
(* the environment: a rotation signal may come at any time, a rename, an    *)
(* open or a compression may fail.                                          *)
(***************************************************************************)
EXTENDS Integers, Sequences, FiniteSets, TLC

\* ------------------------------------------------------------------ bounds
NumCallers == 2
MaxWrites == 2
MaxPayload == 2
MaxRot == 2
MaxCloses == 2
MaxRemainCap == 1
MaxThresh == 2
QueueSize == 2
BufferSize == 2
MaxFops == 2
RetRot == 3

\* os.Rename is attempted three times before Reopen gives up (lines 228-231).
RenameAttempts == 3

Modes == {"none", "lock", "async", "buffer"}
Callers == 1..NumCallers
\* Rotations are numbered in the order of their signals: at most MaxRot of them in
\* a run of Spec, RetRot in a run of RetSpec (the retention scenario).
Rots == 1..RetRot

VARIABLES
    cf,             \* *Config: WriterMode, Compress, MaxRemain, BufferWriterThershould
    files,          \* the file system: path -> file
    wfile,          \* Writer.file: the state of the handle it points to
    fire,           \* Writer.fire: the name the Manager is blocked sending (0: none)
    fired,          \* number of rotation signals the Manager has emitted
    rot,            \* per rotation: how Reopen ended, and the content it renamed
    task,           \* per rotation: position of its detached background task
    rollingfilech,  \* Writer.rollingfilech: the retention channel
    removed,        \* targets DoRemove has taken from the channel, in order
    pc,             \* per caller: position in its Write or Close call
    loc,            \* per caller: the call's local variables
    mutex,          \* LockedWriter's sync.Mutex: the holder, or 0
    queue,          \* AsynchronousWriter.queue
    closed,         \* AsynchronousWriter.closed
    ctx,            \* AsynchronousWriter.ctx: TRUE once close(w.ctx) ran
    bgw,            \* AsynchronousWriter.writer(): position and the chunk in hand
    pool,           \* _asyncBufferPool: the lengths of the buffers it holds
    wbuf,           \* BufferWriter.buf: the slice it points to
    arrs,           \* backing arrays of the BufferWriter's slices
    swaping,        \* BufferWriter.swaping
    nw,             \* number of Write calls started
    ncl,            \* number of Close calls started
    sub,            \* Write calls that returned success: payload and epoch
    acq,            \* LockedWriter: payloads in the order their calls took the lock
    ret             \* what the call that returned last returned

cfgv == <<cf>>
fsv == <<files, wfile>>
mgrv == <<fire, fired>>
rotv == <<rot, task, rollingfilech, removed>>
asyncv == <<queue, closed, ctx, bgw, pool>>
bufv == <<wbuf, arrs, swaping>>
ghostv == <<nw, ncl, sub, acq, ret>>
vars == <<cf, files, wfile, fire, fired, rot, task, rollingfilech, removed, pc, loc,
          mutex, queue, closed, ctx, bgw, pool, wbuf, arrs, swaping, nw, ncl, sub,
          acq, ret>>

\* ----------------------------------------------------------------- helpers
Range(s) == {s[i] : i \in 1..Len(s)}

Min(a, b) == IF a < b THEN a ELSE b

\* The payload of the w-th Write call, of length n: bytes no other call submits.
Payload(w, n) == [i \in 1..n |-> (w - 1) * (MaxPayload + 1) + i]

\* ------------------------------------------------------------- file system
\* A path: the active log file (k = 0), a rotation's target name (k > 0), or the
\* target name followed by ".tmp".
Paths == [k : 0..RetRot, tmp : BOOLEAN]
Path(k, t) == [k |-> k, tmp |-> t]
Log == Path(0, FALSE)

Absent == [ex |-> FALSE, gz |-> FALSE, data |-> <<>>]
Empty == [ex |-> TRUE, gz |-> FALSE, data |-> <<>>]

\* gzip of a file's content, and its inverse: a gzip stream is not the content.
Gzip(d) == [ex |-> TRUE, gz |-> TRUE, data |-> d]
Gunzip(f) == IF f.ex /\ f.gz THEN f.data ELSE <<>>

\* os.Rename(from, to)
RenameKeep(fs, from, to) == [fs EXCEPT ![to] = fs[from]]

Rename(fs, from, to) == [fs EXCEPT ![to] = fs[from], ![from] = Absent]

\* (*os.File).Write on the handle: it fails on a closed or nil handle and on one
\* opened read-only by os.Open.
Writable(h) == h.st = "open" /\ h.rw

FileWrite(fs, h, b) == IF Writable(h) THEN [fs EXCEPT ![Log].data = @ \o b] ELSE fs

WriteErr(h) ==
    IF Writable(h) THEN "nil"
    ELSE IF h.st = "closed" THEN "os.ErrClosed"
    ELSE IF h.st = "nil" THEN "os.ErrInvalid"
    ELSE "EBADF"

\* (*os.File).Close
FileClose(h) == [h EXCEPT !.st = IF @ = "open" THEN "closed" ELSE @]
CloseErr(h) ==
    IF h.st = "open" THEN "nil"
    ELSE IF h.st = "closed" THEN "os.ErrClosed" ELSE "os.ErrInvalid"

\* Number of rotation signals received so far by Write calls.
Consumed == IF fire = 0 THEN fired ELSE fired - 1

\* The count of a Close call's operations on the file handle, kept up to MaxFops.
MoreFops(n) == Min(n + 1, MaxFops)

NoRet == [op |-> "-", ci |-> 0, n |-> 0, err |-> "nil", fops |-> 0]
LocInit == [pay |-> <<>>, tgt |-> 0, ci |-> 0, rest |-> <<>>, err |-> "nil",
            sl |-> [arr |-> 0, len |-> 0], fops |-> 0, fl |-> FALSE]

\* ---------------------------------------------------------------- Init
\* NewWriterFromConfig: the file is open, the Manager runs, the asynchronous
\* writer's background task is started.  A configuration is a run's scenario:
\* the writer variant, Compress and MaxRemain (varied for Writer and
\* LockedWriter: the background task is Writer.Reopen's own, whatever the
\* variant), the flush threshold, the number of concurrent callers (one for
\* Writer, which is for single-caller use), the number nrot of signals the
\* Manager sends in the run and the number nwrites of Write calls made in it.
ActiveCallers == 1..cf.ncallers

\* The state NewWriterFromConfig leaves, for the configuration cf.
Started ==
    /\ files = [p \in Paths |-> IF p = Log THEN Empty ELSE Absent]
    /\ wfile = [st |-> "open", rw |-> TRUE]
    /\ fire = 0
    /\ fired = 0
    /\ rot = [k \in Rots |-> [st |-> "pending", snap |-> <<>>]]
    /\ task = [k \in Rots |-> "off"]
    /\ rollingfilech = <<>>
    /\ removed = <<>>
    /\ pc = [c \in Callers |-> "idle"]
    /\ loc = [c \in Callers |-> LocInit]
    /\ mutex = 0
    /\ queue = <<>>
    /\ closed = 0
    /\ ctx = FALSE
    /\ bgw = [pc |-> IF cf.mode = "async" THEN "run" ELSE "off", b |-> <<>>]
    /\ pool = {}
    /\ wbuf = [arr |-> 1, len |-> 0]
    /\ arrs = <<[cap |-> 2 * cf.thresh, data |-> <<>>]>>
    /\ swaping = 0
    /\ nw = 0
    /\ ncl = 0
    /\ sub = <<>>
    /\ acq = <<>>
    /\ ret = NoRet

Init ==
    /\ \E m \in Modes, c \in BOOLEAN, r \in 0..MaxRemainCap, t \in 1..MaxThresh,
          n \in 1..NumCallers :
          /\ (m = "none") => (n = 1)
          /\ (m = "async") => (n = NumCallers)
          /\ (m # "buffer") => (t = 1)
          /\ (m \in {"async", "buffer"}) => (~c /\ r = 0)
          /\ cf = [mode |-> m, compress |-> c, maxRemain |-> r, thresh |-> t,
                   ncallers |-> n,
                   nrot |-> IF m = "buffer" /\ n > 1 THEN 0
                            ELSE IF m = "async" THEN MaxRot - 1 ELSE MaxRot,
                   nwrites |-> MaxWrites]
    /\ Started

\* The retention scenario: the Writer with MaxRemain > 0, with and without
\* compression, RetRot signals and as many Write calls to receive them.
InitRet ==
    /\ \E c \in BOOLEAN, r \in 1..MaxRemainCap :
          cf = [mode |-> "none", compress |-> c, maxRemain |-> r, thresh |-> 1,
                ncallers |-> 1, nrot |-> RetRot, nwrites |-> RetRot]
    /\ Started

\* ------------------------------------------------------------- Manager
\* The Manager (and the start-up check of NewWriterFromConfig, lines 128-141)
\* sends the next target name on the unbuffered fire channel: it stays pending
\* until a Write call receives it.  Target names are distinct.
ManagerFire ==
    /\ fire = 0
    /\ fired < cf.nrot
    /\ fire' = fired + 1
    /\ fired' = fired + 1
    /\ UNCHANGED <<cfgv, fsv, rotv, pc, loc, mutex, asyncv, bufv, ghostv>>

\* ------------------------------------------------------------ call start
\* A write of the background task failed and no Write call received the error
\* yet.  A Write call notes in fl whether it started in that situation.
Failed == bgw.pc \in {"err", "send"}

\* The payload lengths of a run.  An empty payload leaves a file as it is; it is
\* submitted to the asynchronous writer, whose pooled buffers keep its length.
PayLens == IF cf.mode = "async" THEN 0..MaxPayload ELSE 1..MaxPayload

FirstWritePc == CASE cf.mode = "lock" -> "lock"
                  [] cf.mode = "async" -> "chk"
                  [] OTHER -> "sel"

StartWrite(c, n) ==
    /\ pc[c] = "idle"
    /\ nw < cf.nwrites
    /\ nw' = nw + 1
    /\ loc' = [loc EXCEPT ![c] = [LocInit EXCEPT !.pay = Payload(nw + 1, n),
                                               !.rest = Payload(nw + 1, n),
                                               !.fl = Failed]]
    /\ pc' = [pc EXCEPT ![c] = FirstWritePc]
    /\ UNCHANGED <<cfgv, fsv, mgrv, rotv, mutex, asyncv, bufv, ncl, sub, acq, ret>>

FirstClosePc == CASE cf.mode = "none" -> "cl"
                  [] cf.mode = "lock" -> "cl_lock"
                  [] cf.mode = "async" -> "ac_cas"
                  [] OTHER -> "bc_wr"

\* The callers inside a Close call.  A Close call that starts when none is has
\* every earlier Close call returned: ci is its rank (0 when it overlaps another).
InClose == {d \in Callers : pc[d] \in {"cl", "cl_lock", "ac_cas", "ac_drain", "ac_write",
                                       "ac_fclose", "bc_wr"}}

StartClose(c) ==
    /\ pc[c] = "idle"
    /\ ncl < MaxCloses
    /\ ncl' = ncl + 1
    /\ loc' = [loc EXCEPT ![c] = [LocInit EXCEPT !.ci = IF InClose = {} THEN ncl + 1 ELSE 0]]
    /\ pc' = [pc EXCEPT ![c] = FirstClosePc]
    /\ UNCHANGED <<cfgv, fsv, mgrv, rotv, mutex, asyncv, bufv, nw, sub, acq, ret>>

\* A call returns: the caller is idle again and ret holds what it returned.
Return(c, r) ==
    /\ pc' = [pc EXCEPT ![c] = "idle"]
    /\ loc' = [loc EXCEPT ![c] = LocInit]
    /\ ret' = r

WriteOk(c) == [op |-> "W", ci |-> 0, n |-> Len(loc[c].pay), err |-> "nil", fops |-> 0]
WriteFail(c, e) == [op |-> "W", ci |-> 0, n |-> 0, err |-> e, fops |-> 0]
WriteRet(c, e) == IF e = "nil" THEN WriteOk(c) ELSE WriteFail(c, e)
\* f: the number of operations the Close call did on the file handle.
CloseRet(c, e, f) == [op |-> "C", ci |-> loc[c].ci, n |-> 0, err |-> e, fops |-> f]

\* A Write call is accepted (it returns success): sub records its payload, the
\* epoch ep (the number of signals received so far), the number nc of Close calls
\* started so far, and ov: another caller is inside Reopen at that moment.
InReopen == {d \in Callers : pc[d] \in {"ro_close", "ro_ren"}}

Accepted(c) ==
    Append(sub, [pay |-> loc[c].pay, ep |-> Consumed, nc |-> ncl,
                 ov |-> InReopen \ {c} # {}])

\* ------------------------------------------------------------- the mutex
\* LockedWriter.Write and LockedWriter.Close: w.Lock()
MutexFreeAlways(m) == TRUE

MutexFree(m) == m = 0

Lock(c) ==
    /\ pc[c] \in {"lock", "cl_lock"}
    /\ MutexFree(mutex)
    /\ mutex' = c
    /\ acq' = IF pc[c] = "lock" THEN Append(acq, loc[c].pay) ELSE acq
    /\ pc' = [pc EXCEPT ![c] = IF pc[c] = "lock" THEN "sel" ELSE "cl"]
    /\ UNCHANGED <<cfgv, fsv, mgrv, rotv, loc, asyncv, bufv, nw, ncl, sub, ret>>

\* w.Unlock() and return, at the end of LockedWriter.Write
Unlock(c) ==
    /\ pc[c] = "unlock"
    /\ mutex' = 0
    /\ Return(c, WriteRet(c, loc[c].err))
    /\ UNCHANGED <<cfgv, fsv, mgrv, rotv, asyncv, bufv, nw, ncl, sub, acq>>

\* -------------------------------------------- the rotation check of Write
\* Where a Write call goes on after the rotation check (or after Reopen).
AfterSelPc(rotated) ==
    CASE cf.mode \in {"none", "lock"} -> "wr"
      [] cf.mode = "async" -> IF rotated THEN "chunk" ELSE "enq"
      [] OTHER -> "b_app"

\* select { case filename := <-w.fire: ... default: }: the non-blocking receive
\* takes the pending signal when there is one.
SelectFire(c) ==
    /\ pc[c] = "sel"
    /\ fire # 0
    /\ loc' = [loc EXCEPT ![c].tgt = fire]
    /\ fire' = 0
    /\ pc' = [pc EXCEPT ![c] = "ro_close"]
    /\ UNCHANGED <<cfgv, fsv, fired, rotv, mutex, asyncv, bufv, ghostv>>

SelectDefault(c) ==
    /\ pc[c] = "sel"
    /\ fire = 0
    /\ ~(cf.mode = "async" /\ bgw.pc = "send")
    /\ pc' = [pc EXCEPT ![c] = AfterSelPc(FALSE)]
    /\ UNCHANGED <<cfgv, fsv, mgrv, rotv, loc, mutex, asyncv, bufv, ghostv>>

\* ---------------------------------------------------------------- Reopen
\* _ = w.file.Close()
ReopenClose(c) ==
    /\ pc[c] = "ro_close"
    /\ wfile' = FileClose(wfile)
    /\ pc' = [pc EXCEPT ![c] = "ro_ren"]
    /\ UNCHANGED <<cfgv, files, mgrv, rotv, loc, mutex, asyncv, bufv, ghostv>>

\* The name the active file is renamed to.
Rname(k) == Path(k, cf.compress)

\* The background task of a rotation starts at the compression, at the retention
\* channel, or has nothing to do.
TaskStart == IF cf.compress THEN "cmp" ELSE IF cf.maxRemain > 0 THEN "ret" ELSE "done"

\* The renames (f of them fail), then os.OpenFile of the new active file (openOk),
\* the assignment of w.file and the start of the background task.
ReopenRest(c, f, openOk) ==
    LET k == loc[c].tgt
        renamed == files[Log].ex /\ f < RenameAttempts
    IN  /\ pc[c] = "ro_ren"
        /\ IF ~renamed
           THEN \* every rename failed: w.file, _ = os.Open(w.absPath); return nil
                /\ wfile' = IF files[Log].ex THEN [st |-> "open", rw |-> FALSE]
                                             ELSE [st |-> "nil", rw |-> FALSE]
                /\ rot' = [rot EXCEPT ![k].st = "renfail"]
                /\ UNCHANGED <<files, task>>
           ELSE IF ~openOk
           THEN \* os.OpenFile failed: print; return nil
                /\ files' = Rename(files, Log, Rname(k))
                /\ rot' = [rot EXCEPT ![k] = [st |-> "openfail", snap |-> files[Log].data]]
                /\ UNCHANGED <<wfile, task>>
           ELSE /\ files' = [Rename(files, Log, Rname(k)) EXCEPT ![Log] = Empty]
                /\ wfile' = [st |-> "open", rw |-> TRUE]
                /\ rot' = [rot EXCEPT ![k] = [st |-> "ok", snap |-> files[Log].data]]
                /\ task' = [task EXCEPT ![k] = TaskStart]
        /\ pc' = [pc EXCEPT ![c] = AfterSelPc(TRUE)]
        /\ UNCHANGED <<cfgv, mgrv, rollingfilech, removed, loc, mutex, asyncv, bufv, ghostv>>

\* ------------------------------------------------- the background task
\* CompressFile(file): how it ends.  "ok": the target holds the gzip of the .tmp
\* file and the .tmp file is removed.  "notmp": os.Open of the .tmp file failed,
\* the deferred gw.Close leaves an empty gzip stream in the target.  "copy":
\* io.Copy (or the open of the target) failed, the target is removed.
CompressFileKeepTmp(fs, k, how) ==
    CASE how = "ok" -> [fs EXCEPT ![Path(k, FALSE)] = Gzip(fs[Path(k, TRUE)].data)]
      [] how = "notmp" -> [fs EXCEPT ![Path(k, FALSE)] = Gzip(<<>>)]
      [] OTHER -> [fs EXCEPT ![Path(k, FALSE)] = Absent]

CompressFile(fs, k, how) ==
    CASE how = "ok" -> [fs EXCEPT ![Path(k, FALSE)] = Gzip(fs[Path(k, TRUE)].data),
                                  ![Path(k, TRUE)] = Absent]
      [] how = "notmp" -> [fs EXCEPT ![Path(k, FALSE)] = Gzip(<<>>)]
      [] OTHER -> [fs EXCEPT ![Path(k, FALSE)] = Absent]

TaskCompress(k, how) ==
    /\ task[k] = "cmp"
    /\ files' = CompressFile(files, k, how)
    /\ task' = [task EXCEPT ![k] = IF how # "ok" THEN "failed"
                                   ELSE IF cf.maxRemain > 0 THEN "ret" ELSE "done"]
    /\ UNCHANGED <<cfgv, wfile, mgrv, rot, rollingfilech, removed, pc, loc, mutex,
                   asyncv, bufv, ghostv>>

\* select { case w.rollingfilech <- file: default: w.DoRemove(); goto retry }
\* The send goes through unless the channel holds MaxRemain names.
ChanFullNever(q) == FALSE

ChanFull(q) == Len(q) >= cf.maxRemain

TaskRetain(k) ==
    /\ task[k] = "ret"
    /\ IF ~ChanFull(rollingfilech)
       THEN /\ rollingfilech' = Append(rollingfilech, k)
            /\ task' = [task EXCEPT ![k] = "done"]
       ELSE /\ task' = [task EXCEPT ![k] = "rm"]
            /\ UNCHANGED rollingfilech
    /\ UNCHANGED <<cfgv, fsv, mgrv, rot, removed, pc, loc, mutex, asyncv, bufv, ghostv>>

\* DoRemove: the blocking receive of the oldest entry, then os.Remove of it.
DoRemove(k) ==
    /\ task[k] = "rm"
    /\ rollingfilech # <<>>
    /\ files' = [files EXCEPT ![Path(Head(rollingfilech), FALSE)] = Absent]
    /\ removed' = Append(removed, Head(rollingfilech))
    /\ rollingfilech' = Tail(rollingfilech)
    /\ task' = [task EXCEPT ![k] = "ret"]
    /\ UNCHANGED <<cfgv, wfile, mgrv, rot, pc, loc, mutex, asyncv, bufv, ghostv>>

\* --------------------------------- Writer.Write and LockedWriter.Write
\* file.Write(b) on the handle w.file points to; Writer.Write returns here,
\* LockedWriter.Write goes on to unlock.
WriteDirect(c) ==
    LET ok == Writable(wfile)
    IN  /\ pc[c] = "wr"
        /\ files' = FileWrite(files, wfile, loc[c].pay)
        /\ sub' = IF ok THEN Accepted(c) ELSE sub
        /\ IF cf.mode = "lock"
           THEN /\ pc' = [pc EXCEPT ![c] = "unlock"]
                /\ loc' = [loc EXCEPT ![c].err = WriteErr(wfile)]
                /\ UNCHANGED ret
           ELSE Return(c, WriteRet(c, WriteErr(wfile)))
        /\ UNCHANGED <<cfgv, wfile, mgrv, rotv, mutex, asyncv, bufv, nw, ncl, acq>>

\* ------------------------------- Writer.Close and LockedWriter.Close
\* return w.file.Close() (LockedWriter: under the lock, released on return)
CloseDirect(c) ==
    /\ pc[c] = "cl"
    /\ wfile' = FileClose(wfile)
    /\ mutex' = IF cf.mode = "lock" THEN 0 ELSE mutex
    /\ Return(c, CloseRet(c, CloseErr(wfile), MoreFops(loc[c].fops)))
    /\ UNCHANGED <<cfgv, files, mgrv, rotv, asyncv, bufv, nw, ncl, sub, acq>>

\* ------------------------------------------------- AsynchronousWriter
\* _asyncBufferPool.Get(): a buffer the pool holds (given by the length it was
\* put back with, which may be zero), or a new one of BufferSize bytes; g = NewBuf
\* stands for New.
NewBuf == -1
PoolGets == pool \cup {NewBuf}
GetLen(g) == IF g = NewBuf THEN BufferSize ELSE g
PoolAfterGet(g) == pool \ {g}
\* _asyncBufferPool.Put(b): the buffer goes back with the length of the chunk.
PoolPut(p, b) == p \cup {Len(b)}

\* if atomic.LoadInt32(&w.closed) == 0 { ... } return 0, ErrClosed
ClosedErr(cl) == IF cl = 0 THEN "nil" ELSE "ErrClosed"

AsyncCheck(c) ==
    /\ pc[c] = "chk"
    /\ IF ClosedErr(closed) = "nil"
       THEN /\ pc' = [pc EXCEPT ![c] = "sel"]
            /\ UNCHANGED <<loc, ret>>
       ELSE Return(c, WriteFail(c, ClosedErr(closed)))
    /\ UNCHANGED <<cfgv, fsv, mgrv, rotv, mutex, asyncv, bufv, nw, ncl, sub, acq>>

\* case err := <-w.errChan: return 0, err.  The background task is blocked sending
\* on the unbuffered error channel; the receive lets it go on to Put and loop.
SelectErr(c) ==
    /\ pc[c] = "sel"
    /\ cf.mode = "async"
    /\ bgw.pc = "send"
    /\ bgw' = [pc |-> "run", b |-> <<>>]
    /\ pool' = PoolPut(pool, bgw.b)
    /\ pc' = [pc EXCEPT ![c] = "idle"]
    /\ loc' = [d \in Callers |-> IF d = c THEN LocInit ELSE [loc[d] EXCEPT !.fl = FALSE]]
    /\ ret' = WriteFail(c, "write error")
    /\ UNCHANGED <<cfgv, fsv, mgrv, rotv, mutex, queue, closed, ctx, bufv, nw, ncl, sub,
                   acq>>

\* default: w.queue <- append(_asyncBufferPool.Get().([]byte)[0:0], b...)[:len(b)]
\* The send blocks while the queue is full.
AsyncEnqueue(c, g) ==
    /\ pc[c] = "enq"
    /\ Len(queue) < QueueSize
    /\ g \in PoolGets
    /\ pool' = PoolAfterGet(g)
    /\ queue' = Append(queue, loc[c].pay)
    /\ sub' = Accepted(c)
    /\ Return(c, WriteOk(c))
    /\ UNCHANGED <<cfgv, fsv, mgrv, rotv, mutex, closed, ctx, bgw, bufv, nw, ncl, acq>>

\* The chunking loop after Reopen: n := copy(buf, b); w.queue <- buf[:n]; b = b[n:]
ChunkLen(g, b) == Min(GetLen(g), Len(b))

AsyncChunk(c, g) ==
    LET b == loc[c].rest
        n == ChunkLen(g, b)
        left == SubSeq(b, n + 1, Len(b))
    IN  /\ pc[c] = "chunk"
        /\ b # <<>>
        /\ Len(queue) < QueueSize
        /\ g \in PoolGets
        /\ pool' = PoolAfterGet(g)
        /\ queue' = Append(queue, SubSeq(b, 1, n))
        /\ IF left = <<>>
           THEN /\ sub' = Accepted(c)
                /\ Return(c, WriteOk(c))
           ELSE /\ loc' = [loc EXCEPT ![c].rest = left]
                /\ UNCHANGED <<pc, sub, ret>>
        /\ UNCHANGED <<cfgv, fsv, mgrv, rotv, mutex, closed, ctx, bgw, bufv, nw, ncl, acq>>

\* The loop is not entered for an empty payload: return l, nil
AsyncChunkEnd(c) ==
    /\ pc[c] = "chunk"
    /\ loc[c].rest = <<>>
    /\ sub' = Accepted(c)
    /\ Return(c, WriteOk(c))
    /\ UNCHANGED <<cfgv, fsv, mgrv, rotv, mutex, asyncv, bufv, nw, ncl, acq>>

\* writer(): case b := <-w.queue
BgDequeue ==
    /\ bgw.pc = "run"
    /\ queue # <<>>
    /\ bgw' = [pc |-> "write", b |-> Head(queue)]
    /\ queue' = Tail(queue)
    /\ UNCHANGED <<cfgv, fsv, mgrv, rotv, pc, loc, mutex, closed, ctx, pool, bufv, ghostv>>

\* writer(): w.file.Write(b); on an error it goes on to send it on w.errChan,
\* else Put and loop
BgWrite ==
    /\ bgw.pc = "write"
    /\ files' = FileWrite(files, wfile, bgw.b)
    /\ IF Writable(wfile)
       THEN /\ bgw' = [pc |-> "run", b |-> <<>>]
            /\ pool' = PoolPut(pool, bgw.b)
       ELSE /\ bgw' = [bgw EXCEPT !.pc = "err"]
            /\ UNCHANGED pool
    /\ UNCHANGED <<cfgv, wfile, mgrv, rotv, pc, loc, mutex, queue, closed, ctx, bufv, ghostv>>

\* writer(): w.errChan <- err.  The channel is unbuffered and the send is not in
\* a select: the task parks on the channel until a Write call receives from it.
BgSend ==
    /\ bgw.pc = "err"
    /\ bgw' = [bgw EXCEPT !.pc = "send"]
    /\ UNCHANGED <<cfgv, fsv, mgrv, rotv, pc, loc, mutex, queue, closed, ctx, pool, bufv,
                   ghostv>>

\* writer(): case <-w.ctx: return
BgStop ==
    /\ bgw.pc = "run"
    /\ ctx
    /\ bgw' = [pc |-> "stopped", b |-> <<>>]
    /\ UNCHANGED <<cfgv, fsv, mgrv, rotv, pc, loc, mutex, queue, closed, ctx, pool, bufv,
                   ghostv>>

\* Close: if atomic.CompareAndSwapInt32(&w.closed, 0, 1) { close(w.ctx) ... }
\* return ErrClosed
AsyncCloseCas(c) ==
    /\ pc[c] = "ac_cas"
    /\ IF closed = 0
       THEN /\ closed' = 1
            /\ ctx' = TRUE
            /\ pc' = [pc EXCEPT ![c] = "ac_drain"]
            /\ UNCHANGED <<loc, ret>>
       ELSE /\ Return(c, CloseRet(c, "ErrClosed", 0))
            /\ UNCHANGED <<closed, ctx>>
    /\ UNCHANGED <<cfgv, fsv, mgrv, rotv, mutex, queue, bgw, pool, bufv, nw, ncl, sub, acq>>

\* onClose: case b := <-w.queue, or default: return when the queue is empty
OnCloseDequeue(c) ==
    /\ pc[c] = "ac_drain"
    /\ IF queue # <<>>
       THEN /\ loc' = [loc EXCEPT ![c].rest = Head(queue)]
            /\ queue' = Tail(queue)
            /\ pc' = [pc EXCEPT ![c] = "ac_write"]
       ELSE /\ pc' = [pc EXCEPT ![c] = "ac_fclose"]
            /\ UNCHANGED <<loc, queue>>
    /\ UNCHANGED <<cfgv, fsv, mgrv, rotv, mutex, closed, ctx, bgw, pool, bufv, ghostv>>

\* onClose: w.file.Write(b).  On an error the non-blocking send on w.errChan finds
\* no receiver waiting (Write only polls the channel), so onClose returns.
OnCloseWrite(c) ==
    /\ pc[c] = "ac_write"
    /\ files' = FileWrite(files, wfile, loc[c].rest)
    /\ pool' = PoolPut(pool, loc[c].rest)
    /\ loc' = [loc EXCEPT ![c].rest = <<>>, ![c].fops = MoreFops(@)]
    /\ pc' = [pc EXCEPT ![c] = IF Writable(wfile) THEN "ac_drain" ELSE "ac_fclose"]
    /\ UNCHANGED <<cfgv, wfile, mgrv, rotv, mutex, queue, closed, ctx, bgw, bufv, ghostv>>

\* Close: return w.file.Close()
AsyncCloseFile(c) ==
    /\ pc[c] = "ac_fclose"
    /\ wfile' = FileClose(wfile)
    /\ Return(c, CloseRet(c, CloseErr(wfile), MoreFops(loc[c].fops)))
    /\ UNCHANGED <<cfgv, files, mgrv, rotv, mutex, asyncv, bufv, nw, ncl, sub, acq>>

\* ------------------------------------------------------- BufferWriter
\* The bytes of a slice: the first len bytes of its backing array.
SliceData(a, s) == SubSeq(a[s.arr].data, 1, s.len)

\* append(s, b...): in place when the capacity suffices (the bytes land in the
\* backing array after the slice's length, whatever was there), else in a new
\* array of at least twice the capacity.
Fits(a, s, b) == s.len + Len(b) <= a[s.arr].cap

AppendArrs(a, s, b) ==
    IF Fits(a, s, b)
    THEN [a EXCEPT ![s.arr].data =
             SliceData(a, s) \o b \o SubSeq(@, s.len + Len(b) + 1, Len(@))]
    ELSE Append(a, [cap |-> IF 2 * a[s.arr].cap < s.len + Len(b)
                            THEN s.len + Len(b) ELSE 2 * a[s.arr].cap,
                    data |-> SliceData(a, s) \o b])

AppendSlice(a, s, b) ==
    [arr |-> IF Fits(a, s, b) THEN s.arr ELSE Len(a) + 1, len |-> s.len + Len(b)]

\* buf := append(*w.buf, b...)
BufAppend(c) ==
    /\ pc[c] = "b_app"
    /\ arrs' = AppendArrs(arrs, wbuf, loc[c].pay)
    /\ loc' = [loc EXCEPT ![c].sl = AppendSlice(arrs, wbuf, loc[c].pay)]
    /\ pc' = [pc EXCEPT ![c] = "b_store"]
    /\ UNCHANGED <<cfgv, fsv, mgrv, rotv, mutex, asyncv, wbuf, swaping, ghostv>>

\* atomic.StorePointer(&w.buf, &buf)
BufStore(c) ==
    /\ pc[c] = "b_store"
    /\ wbuf' = loc[c].sl
    /\ pc' = [pc EXCEPT ![c] = "b_chk"]
    /\ UNCHANGED <<cfgv, fsv, mgrv, rotv, loc, mutex, asyncv, arrs, swaping, ghostv>>

\* if len(*w.buf) > w.cf.BufferWriterThershould && CompareAndSwapInt32(&w.swaping, 0, 1)
OverThresholdGe(n) == n >= cf.thresh

OverThreshold(n) == n > cf.thresh

\* The compare-and-swap of the flag from 0 to 1 succeeds when the flag is 0.
CasWinsAlways(s) == TRUE

CasWins(s) == s = 0

BufCheck(c) ==
    /\ pc[c] = "b_chk"
    /\ IF OverThreshold(wbuf.len) /\ CasWins(swaping)
       THEN /\ swaping' = 1
            /\ pc' = [pc EXCEPT ![c] = "b_swap"]
            /\ UNCHANGED <<loc, ret, sub>>
       ELSE /\ sub' = Accepted(c)
            /\ Return(c, WriteOk(c))
            /\ UNCHANGED swaping
    /\ UNCHANGED <<cfgv, fsv, mgrv, rotv, mutex, asyncv, wbuf, arrs, nw, ncl, acq>>

\* nb := make([]byte, 0, 2*threshold); ob := atomic.SwapPointer(&w.buf, &nb)
BufSwap(c) ==
    /\ pc[c] = "b_swap"
    /\ arrs' = Append(arrs, [cap |-> 2 * cf.thresh, data |-> <<>>])
    /\ wbuf' = [arr |-> Len(arrs) + 1, len |-> 0]
    /\ loc' = [loc EXCEPT ![c].sl = wbuf]
    /\ pc' = [pc EXCEPT ![c] = "b_flush"]
    /\ UNCHANGED <<cfgv, fsv, mgrv, rotv, mutex, asyncv, swaping, ghostv>>

\* w.file.Write(*ob): the error is dropped
BufFlush(c) ==
    /\ pc[c] = "b_flush"
    /\ files' = FileWrite(files, wfile, SliceData(arrs, loc[c].sl))
    /\ pc' = [pc EXCEPT ![c] = "b_rel"]
    /\ UNCHANGED <<cfgv, wfile, mgrv, rotv, loc, mutex, asyncv, bufv, ghostv>>

\* atomic.StoreInt32(&w.swaping, 0); return len(b), nil
BufRelease(c) ==
    /\ pc[c] = "b_rel"
    /\ swaping' = 0
    /\ sub' = Accepted(c)
    /\ Return(c, WriteOk(c))
    /\ UNCHANGED <<cfgv, fsv, mgrv, rotv, mutex, asyncv, wbuf, arrs, nw, ncl, acq>>

\* BufferWriter.Close: w.file.Write(*w.buf), then return w.file.Close()
CloseNoFlush(fs, h, b) == fs

CloseFlush(fs, h, b) == FileWrite(fs, h, b)

BufCloseWrite(c) ==
    /\ pc[c] = "bc_wr"
    /\ files' = CloseFlush(files, wfile, SliceData(arrs, wbuf))
    /\ loc' = [loc EXCEPT ![c].fops = MoreFops(@)]
    /\ pc' = [pc EXCEPT ![c] = "cl"]
    /\ UNCHANGED <<cfgv, wfile, mgrv, rotv, mutex, asyncv, bufv, ghostv>>

\* ------------------------------------------------- what the claims speak of
RECURSIVE Flat(_)
Flat(ss) == IF ss = <<>> THEN <<>> ELSE Head(ss) \o Flat(Tail(ss))

\* a is b with some elements left out
RECURSIVE IsSubseq(_, _)
IsSubseq(a, b) ==
    IF a = <<>> THEN TRUE
    ELSE IF b = <<>> THEN FALSE
    ELSE IF Head(a) = Head(b) THEN IsSubseq(Tail(a), Tail(b))
    ELSE IsSubseq(a, Tail(b))

\* The payloads of the accepted Write calls, in the order they were accepted.
SubPays == [i \in 1..Len(sub) |-> sub[i].pay]

\* The files that hold byte b.
Holders(b) == {p \in Paths : files[p].ex /\ b \in Range(files[p].data)}

\* Rotation k renamed the active file.
Renamed(k) == rot[k].st \in {"ok", "openfail"}

\* The first rotation after epoch e that renamed the active file (0: none yet).
NextRen(e) ==
    LET ks == {k \in Rots : k > e /\ Renamed(k)}
    IN  IF ks = {} THEN 0 ELSE CHOOSE k \in ks : \A j \in ks : k <= j

\* Where the bytes written in epoch e belong: the active file until a rotation
\* renames it, then that rotation's historical file (under its target name, or
\* under the .tmp name while compression is pending).
Home(e) ==
    IF NextRen(e) = 0 THEN {Log} ELSE {Path(NextRen(e), FALSE), Path(NextRen(e), TRUE)}

\* The retention task deleted the historical file of the bytes of epoch e.
Evicted(e) == NextRen(e) # 0 /\ NextRen(e) \in Range(removed)

\* The content rotation k put aside, while it is on disk.
HistData(k) ==
    IF files[Path(k, TRUE)].ex THEN files[Path(k, TRUE)].data
    ELSE files[Path(k, FALSE)].data

\* Everything on disk in rotation order: the historical files, then the active file.
RECURSIVE HistUpTo(_)
HistUpTo(k) == IF k = 0 THEN <<>> ELSE HistUpTo(k - 1) \o HistData(k)
Stream == HistUpTo(MaxRot) \o files[Log].data

\* Every byte of every accepted Write call is in its home file and nowhere else
\* (nowhere at all once retention deleted that file).
InPlace ==
    \A i \in 1..Len(sub) : \A b \in Range(sub[i].pay) :
        /\ Holders(b) \subseteq Home(sub[i].ep)
        /\ Cardinality(Holders(b)) = IF Evicted(sub[i].ep) THEN 0 ELSE 1

\* C1: with no rotation signal and a single caller, for the Writer, the
\* LockedWriter and the BufferWriter: when Close returns after a sequence of
\* Write calls, every call was accepted and the file holds exactly the payloads,
\* in submission order.
InvC1 ==
    (/\ cf.mode \in {"none", "lock", "buffer"}
     /\ cf.ncallers = 1
     /\ fired = 0
     /\ ret.op = "C" /\ ret.ci = 1
     /\ pc[1] = "idle")
    => /\ Len(sub) = nw
       /\ \A i \in 1..nw : sub[i].pay = Payload(i, Len(sub[i].pay))
       /\ files[Log].data = Flat(SubPays)

WitC1 ==
    /\ cf.mode = "buffer" /\ cf.ncallers = 1 /\ cf.thresh = MaxThresh
    /\ fired = 0
    /\ ret.op = "C" /\ ret.ci = 1
    /\ pc[1] = "idle"
    /\ nw = MaxWrites
    /\ Len(files[Log].data) >= MaxWrites

\* C3: for the Writer with one caller and the LockedWriter with any number of
\* callers, across a rotation whose rename succeeded: every byte written before
\* the signal was received is only in the renamed historical file, every byte
\* written after it only in the new active file; none is in both, none is lost.
InvC3 == cf.mode \in {"none", "lock"} => InPlace

WitC3 ==
    /\ cf.mode = "lock" /\ cf.ncallers > 1
    /\ Len(sub) = 2
    /\ sub[1].ep = 0 /\ sub[2].ep = 1
    /\ rot[1].st = "ok"
    /\ Range(sub[1].pay) \subseteq Range(files[Path(1, cf.compress)].data)
    /\ Range(sub[2].pay) \subseteq Range(files[Log].data)

\* C10: for the LockedWriter: at most one caller is between Lock and Unlock (in
\* the check-rotate-write sequence or in Close) and it holds the mutex; the
\* mutex is free when no call is in progress; what is on disk is the whole
\* payloads of the successful writes, in the order their callers took the lock.
InCritical == {c \in Callers : pc[c] \in {"sel", "ro_close", "ro_ren", "wr", "unlock", "cl"}}

InvC10 ==
    cf.mode = "lock" =>
        /\ Cardinality(InCritical) <= 1
        /\ \A c \in InCritical : mutex = c
        /\ (\A c \in Callers : pc[c] = "idle") => mutex = 0
        /\ IsSubseq(SubPays, acq)
        /\ removed = <<>> => Stream = Flat(SubPays)

WitC10 ==
    /\ cf.mode = "lock"
    /\ \E c, d \in Callers :
          /\ pc[c] = "wr" /\ loc[c].tgt = 1 /\ rot[1].st = "ok"
          /\ pc[d] = "lock" /\ Len(loc[d].pay) = MaxPayload
    /\ acq # <<>>

\* C2: for the AsynchronousWriter with no rotation: once Close has returned, the
\* file holds every byte of every Write call that returned success before Close
\* was called, in submission order.
CloseDone ==
    closed = 1 /\ \A c \in Callers : pc[c] \notin {"ac_drain", "ac_write", "ac_fclose"}

BeforeClose(e) == e.nc = 0

PreClosePays ==
    LET pre == SelectSeq(sub, BeforeClose) IN [i \in 1..Len(pre) |-> pre[i].pay]

ClaimC2 ==
    (cf.mode = "async" /\ fired = 0 /\ CloseDone)
    => IsSubseq(Flat(PreClosePays), files[Log].data)

\* C4: for the AsynchronousWriter: every byte of a Write call that returned
\* success before the rotation signal was received is only ever in the renamed
\* historical file, every byte accepted after it only in the new active file
\* (a call accepted while another caller is inside Reopen is left out: it is
\* neither before nor after the rotation).
ClaimC4 ==
    cf.mode = "async" =>
        \A i \in 1..Len(sub) : \A b \in Range(sub[i].pay) :
            ~sub[i].ov => Holders(b) \subseteq Home(sub[i].ep)

\* C5: for the BufferWriter with a single caller: the bytes accepted before the
\* rotation signal was received, those still in the in-memory buffer included,
\* are only ever in the renamed historical file, the bytes accepted after it only
\* in the new active file.
ClaimC5 ==
    (cf.mode = "buffer" /\ cf.ncallers = 1) =>
        \A i \in 1..Len(sub) : \A b \in Range(sub[i].pay) : Holders(b) \subseteq Home(sub[i].ep)

\* C6: with MaxRemain = N > 0 and no compression, after R successful rotations
\* and once every background task has finished, the historical files that remain
\* are exactly the min(R, N) most recent ones.
TasksQuiet ==
    \A k \in Rots : IF k <= Consumed THEN rot[k].st = "ok" /\ task[k] = "done"
                    ELSE task[k] = "off"

Remaining == {k \in Rots : files[Path(k, FALSE)].ex}

ClaimC6 ==
    (~cf.compress /\ cf.maxRemain > 0 /\ TasksQuiet)
    => Remaining = {k \in Rots : Consumed - Min(Consumed, cf.maxRemain) < k /\ k <= Consumed}

\* C7, as stated: with compression, for every rotation whose rename succeeded,
\* once its background task has completed (and until retention deletes the
\* file) the target holds a gzip stream of the content the active file had at
\* the rotation, and there is no .tmp file.
Compressed(k) ==
    /\ files[Path(k, FALSE)].ex /\ files[Path(k, FALSE)].gz
    /\ Gunzip(files[Path(k, FALSE)]) = rot[k].snap
    /\ ~files[Path(k, TRUE)].ex

ClaimC8 ==
    (ret.op = "C" /\ ret.ci >= 2) => (ret.err = "ErrClosed" /\ ret.fops = 0)

\* C9: for the AsynchronousWriter: a Write call that finds the closed flag set
\* returns (0, ErrClosed) and leaves the queue, the signal channel and the error
\* channel alone; and no Write call puts a chunk in the queue after Close
\* finished draining it.
Drained == closed = 1 /\ \A c \in Callers : pc[c] \notin {"ac_drain", "ac_write"}

ClaimC9 ==
    [][/\ \A c \in Callers :
            (pc[c] = "chk" /\ closed = 1 /\ pc'[c] # "chk")
            => /\ ret' = [op |-> "W", ci |-> 0, n |-> 0, err |-> "ErrClosed", fops |-> 0]
               /\ queue' = queue /\ fire' = fire /\ bgw' = bgw
       /\ Drained => Len(queue') <= Len(queue)]_vars

\* C11: for the BufferWriter with two or more concurrent callers and no
\* rotation: once Close has returned after every Write call returned, every byte
\* of every accepted payload is in the file exactly once.
CountIn(b, s) == Cardinality({i \in 1..Len(s) : s[i] = b})

ClaimC11 ==
    (/\ cf.mode = "buffer" /\ cf.ncallers >= 2 /\ fired = 0
     /\ ncl = 1 /\ ret.op = "C"
     /\ \A c \in Callers : pc[c] = "idle"
     /\ Len(sub) = nw
     /\ \A i \in 1..Len(sub) : sub[i].nc = 0)
    => \A i \in 1..Len(sub) : \A b \in Range(sub[i].pay) : CountIn(b, files[Log].data) = 1

\* C12: for the Writer and the LockedWriter, before any Close: when every rename
\* attempt of the latest rotation failed, a Write call's file.Write (the one of
\* the call that ran the rotation and those of later calls) appends the payload
\* to the file at the original path, and the rotation has no background task.
LastRenameFailed == Consumed >= 1 /\ rot[Consumed].st = "renfail"

ClaimC12 ==
    [][\A c \in Callers :
          (/\ cf.mode \in {"none", "lock"} /\ ncl = 0
           /\ pc[c] = "wr" /\ pc'[c] # "wr"
           /\ LastRenameFailed)
          => /\ files'[Log].data = files[Log].data \o loc[c].pay
             /\ task[Consumed] = "off"]_vars

\* C13: for the AsynchronousWriter: a Write call that started after a write of
\* the background task failed, and reaches its select while that failure is
\* still undelivered, returns the failure with count 0 and puts nothing in the
\* queue.
ClaimC13 ==
    [][\A c \in Callers :
          (/\ cf.mode = "async"
           /\ pc[c] = "sel" /\ pc'[c] # "sel"
           /\ loc[c].fl /\ Failed)
          => /\ pc'[c] = "idle"
             /\ ret' = [op |-> "W", ci |-> 0, n |-> 0, err |-> "write error", fops |-> 0]
             /\ queue' = queue]_vars

\* C14: for the Writer and the LockedWriter, before any Close: when the open of
\* the new file failed in the rotation a Write call ran (after a successful
\* rename), that Write call does not end with an error.
ClaimC14 ==
    [][\A c \in Callers :
          (/\ cf.mode \in {"none", "lock"} /\ ncl = 0
           /\ pc[c] = "wr" /\ pc'[c] # "wr"
           /\ loc[c].tgt # 0 /\ rot[loc[c].tgt].st = "openfail")
          => IF cf.mode = "lock" THEN loc'[c].err = "nil" ELSE ret'.err = "nil"]_vars

\* C15: for the AsynchronousWriter while it is not closed and no rename or open
\* of a rotation has failed: every write of the background task is on an open
\* handle and puts the chunk in the active file.
NoRotationFault == \A k \in Rots : rot[k].st \in {"pending", "ok"}

ClaimC15 ==
    [][(/\ cf.mode = "async" /\ closed = 0 /\ NoRotationFault
        /\ bgw.pc = "write" /\ bgw'.pc # "write" /\ bgw.b # <<>>)
       => /\ Writable(wfile)
          /\ files'[Log].data = files[Log].data \o bgw.b]_vars

\* C18: the AsynchronousWriter's background task is never parked on the error
\* channel while no call is in progress: with nobody to receive the error it has
\* dropped it and is back at the queue.
ClaimC18 == ~(bgw.pc = "send" /\ \A c \in Callers : pc[c] = "idle")

\* C16: for the BufferWriter with a single caller, threshold T and no rotation,
\* before Close: a Write call writes to the file exactly when the buffer length
\* after its append is greater than T; it then writes the whole buffer, which is
\* every byte submitted and not yet in the file, and the shared buffer is empty;
\* when a Write call returns the buffered length is at most T and the file
\* content followed by the buffer content is what was submitted so far.
SingleBuffered == cf.mode = "buffer" /\ cf.ncallers = 1 /\ fired = 0 /\ ncl = 0

InvC16 ==
    [][SingleBuffered =>
          /\ (pc[1] = "b_chk" /\ pc'[1] # "b_chk")
             => (pc'[1] = "b_swap" <=> wbuf.len > cf.thresh)
          /\ (files' # files)
             => /\ pc[1] = "b_flush"
                /\ loc[1].sl.len > cf.thresh
                /\ files'[Log].data = files[Log].data \o SliceData(arrs, loc[1].sl)
                /\ files'[Log].data = Flat(SubPays) \o loc[1].pay
                /\ wbuf.len = 0
          /\ (pc[1] # "idle" /\ pc'[1] = "idle")
             => /\ wbuf'.len <= cf.thresh
                /\ files'[Log].data \o SliceData(arrs', wbuf') = Flat(SubPays')
                /\ Len(sub') = nw]_vars

WitC16 ==
    /\ SingleBuffered
    /\ pc[1] = "idle" /\ nw = MaxWrites
    /\ files[Log].data # <<>>
    /\ wbuf.len = cf.thresh

\* C17: for the BufferWriter under concurrent callers: at most one Write call is
\* between winning the flush flag and releasing it (swapping the buffer, writing
\* the old one, resetting the flag), the flag is set exactly while one is, and it
\* is clear whenever no Write call is in progress.
Flushing == {c \in Callers : pc[c] \in {"b_swap", "b_flush", "b_rel"}}

InBufWrite ==
    {c \in Callers : pc[c] \in {"sel", "ro_close", "ro_ren", "b_app", "b_store", "b_chk"}}
    \cup Flushing

ChunkStep == Len(queue') > Len(queue) /\ \A d \in Callers : pc[d] = "enq" => pc'[d] = "enq"

ClaimC20 ==
    [][(cf.mode = "async" /\ ChunkStep) =>
          LET ch == queue'[Len(queue')]
          IN  /\ ch # <<>>
              /\ Len(ch) <= BufferSize
              /\ \E c \in Callers :
                    /\ pc[c] = "chunk"
                    /\ loc[c].rest = ch \o (IF pc'[c] = "chunk" THEN loc'[c].rest ELSE <<>>)
                    /\ pc'[c] # "chunk" =>
                          ret' = [op |-> "W", ci |-> 0, n |-> Len(loc[c].pay),
                                  err |-> "nil", fops |-> 0]]_vars

\* C19: with MaxRemain = N > 0 and any number of background tasks running: the
\* retention channel never holds more than N names; a target file is deleted
\* only in a step that takes its name from the head of the channel; and every
\* background task that got to the retention step (its compression succeeded or
\* is disabled) eventually has put its file in the channel and ended: none
\* stays blocked in DoRemove on an empty channel.
Enqueued(k) == k \in Range(rollingfilech) \cup Range(removed)

Next ==
    \/ ManagerFire
    \/ \E c \in ActiveCallers, n \in PayLens : StartWrite(c, n)
    \/ \E c \in ActiveCallers : StartClose(c)
    \/ \E c \in ActiveCallers : Lock(c)
    \/ \E c \in ActiveCallers : Unlock(c)
    \/ \E c \in ActiveCallers : SelectFire(c)
    \/ \E c \in ActiveCallers : SelectDefault(c)
    \/ \E c \in ActiveCallers : ReopenClose(c)
    \/ \E c \in ActiveCallers, f \in 0..RenameAttempts, o \in BOOLEAN : ReopenRest(c, f, o)
    \/ \E k \in Rots, how \in {"ok", "notmp", "copy"} : TaskCompress(k, how)
    \/ \E k \in Rots : TaskRetain(k)
    \/ \E k \in Rots : DoRemove(k)
    \/ \E c \in ActiveCallers : WriteDirect(c)
    \/ \E c \in ActiveCallers : CloseDirect(c)
    \/ \E c \in ActiveCallers : AsyncCheck(c)
    \/ \E c \in ActiveCallers : SelectErr(c)
    \/ \E c \in ActiveCallers, g \in NewBuf..MaxPayload : AsyncEnqueue(c, g)
    \/ \E c \in ActiveCallers, g \in NewBuf..MaxPayload : AsyncChunk(c, g)
    \/ \E c \in ActiveCallers : AsyncChunkEnd(c)
    \/ BgDequeue
    \/ BgWrite
    \/ BgSend
    \/ BgStop
    \/ \E c \in ActiveCallers : AsyncCloseCas(c)
    \/ \E c \in ActiveCallers : OnCloseDequeue(c)
    \/ \E c \in ActiveCallers : OnCloseWrite(c)
    \/ \E c \in ActiveCallers : AsyncCloseFile(c)
    \/ \E c \in ActiveCallers : BufAppend(c)
    \/ \E c \in ActiveCallers : BufStore(c)
    \/ \E c \in ActiveCallers : BufCheck(c)
    \/ \E c \in ActiveCallers : BufSwap(c)
    \/ \E c \in ActiveCallers : BufFlush(c)
    \/ \E c \in ActiveCallers : BufRelease(c)
    \/ \E c \in ActiveCallers : BufCloseWrite(c)

Spec == Init /\ [][Next]_vars

\* The retention scenario.  Its steps are those of the Writer variant and of the
\* rotations' background tasks; every background task is a goroutine the
\* scheduler keeps running while it can take a step.
RetNext ==
    \/ ManagerFire
    \/ \E c \in ActiveCallers, n \in PayLens : StartWrite(c, n)
    \/ \E c \in ActiveCallers : SelectFire(c)
    \/ \E c \in ActiveCallers : SelectDefault(c)
    \/ \E c \in ActiveCallers : ReopenClose(c)
    \/ \E c \in ActiveCallers, f \in 0..RenameAttempts, o \in BOOLEAN : ReopenRest(c, f, o)
    \/ \E k \in Rots, how \in {"ok", "notmp", "copy"} : TaskCompress(k, how)
    \/ \E k \in Rots : TaskRetain(k)
    \/ \E k \in Rots : DoRemove(k)
    \/ \E c \in ActiveCallers : WriteDirect(c)

TaskFair ==
    \A k \in Rots :
        /\ WF_vars(\E how \in {"ok", "notmp", "copy"} : TaskCompress(k, how))
        /\ WF_vars(TaskRetain(k))
        /\ WF_vars(DoRemove(k))

RetSpec == InitRet /\ [][RetNext]_vars /\ TaskFair

====
